---- MODULE Spec2Model ----
(***************************************************************************)
(* splank: the search execution and streaming engine of SplunkClient       *)
(* (src/splank/client.py) and the multi-profile dispatcher of cmd_search   *)
(* (src/splank/cli.py), against a remote service that runs search jobs.    *)
(*                                                                         *)
(* Every client (one per profile, as built by get_client) is a worker w.   *)
(* The generator returned by SplunkClient.search is a small program with a *)
(* position pc[w]; the remote job of worker w is svcState[w] / svcRows[w]. *)
(***************************************************************************)
EXTENDS Integers, Sequences, FiniteSets, TLC

\* ----------------------------------------------------------------- bounds
\* Most profiles a run queries (one worker, client and job per profile).
MaxProfiles == 2
\* Most rows one job produces.
MaxRows == 3
\* Largest max_results a call is given (0..MaxCap).
MaxCap == 3
\* The request counters saturate here (they are history, not program state).
MaxCount == 2

Workers == 1..MaxProfiles

Min(a, b) == IF a < b THEN a ELSE b

\* ------------------------------------------------------- the remote service
\* The life of a job: QUEUED, RUNNING, then DONE or FAILED. The vocabulary of
\* dispatch states is open-ended; NEWSTATE stands for a value the client does
\* not know, which a job may pass through after RUNNING.
Lifecycle == <<"QUEUED", "RUNNING", "NEWSTATE", "DONE", "FAILED">>
Rank(s) == CHOOSE i \in 1..Len(Lifecycle) : Lifecycle[i] = s
NonTerminal == {"QUEUED", "RUNNING", "NEWSTATE"}
Terminal == {"DONE", "FAILED"}
DispatchStates == NonTerminal \cup Terminal

Digit(i) == <<"0", "1", "2", "3", "4", "5", "6", "7", "8", "9">>[i + 1]

\* The i-th row job w produces. Rows differ by position, so that a repeated
\* or skipped position shows; a row is a mapping with no fixed schema, so the
\* rows differ in their fields too: one has an internal field, one brings a
\* field named _profile of its own, one has a long value.
ServiceRow(w, i) ==
    LET raw == ("_raw" :> <<"e", Digit(w), Digit(i)>>)
    IN  CASE i % 3 = 1 -> raw @@ ("_cd" :> <<"7">>)
          [] i % 3 = 2 -> raw @@ ("_profile" :> <<"x">>)
          [] OTHER     -> raw @@ ("host" :> <<"w", "e", "b", "0", "1">>)

\* The identifier the service of profile w gives its job.
SidOf(w) == <<"sid1", "sid2", "sid3", "sid4">>[w]
NoSid == ""

VARIABLES
    \* ---- call parameters
    max_results,   \* search(max_results=...)
    query,         \* search(query=...), a sequence of characters
    stream,        \* stream[w]: search(stream=...)
    op,            \* op[w]: the client operation worker w runs
    \* ---- SplunkClient.search / _stream_results, per worker
    pc,            \* position in the operation
    sid,           \* sid = result["sid"]
    state,         \* state = status[...]["dispatchState"], last observed
    seen_count,    \* seen_count of _stream_results
    new_results,   \* rows of the current response not yet yielded
    yielded,       \* rows handed to the consumer so far (history)
    err,           \* the exception the operation ended with
    reconsumed,    \* the consumer asked the ended sequence for another row (history)
    \* ---- the remote service, per worker (profile)
    svcState,      \* dispatch state of the job ("NONE": no job yet)
    svcRows,       \* number of rows the job has produced so far
    jobRows,       \* number of rows the job produces if it runs to its end
    svcCapped,     \* whether the service honours the count parameter
    \* ---- history of the requests of each worker
    reqs,          \* saturating count of requests per endpoint
    lastOffset,    \* offset parameter of the last preview request (-1: none)
    failedReq,     \* a request of this operation has failed
    sawFailed,     \* a status poll of this operation observed FAILED
    lastAuth,      \* Authorization header of the last request sent
    submitted,     \* data["search"] of the submit request
    lastTarget,    \* sid in the URL of the last status, results or preview request
    \* ---- get_client: the profile's credentials and the client built from them
    creds,         \* creds[w]: what credentials.toml holds for the profile
    token,         \* self.token
    session_key,   \* self.session_key
    \* ---- cmd_search
    profiles,      \* args.profiles or [None]
    args,          \* args.format, args.output, args.internal, args.width
    mainpc,        \* position of the main thread in cmd_search / main
    all_results,   \* all_results of the multi-profile branch
    out,           \* the rows handed to the output function
    finishedQ,     \* futures as_completed will yield next, in that order
    completionSeq, \* futures in the order they finished (history)
    mergedSeq,     \* futures the merge loop has taken, in that order
    runErr,        \* the exception that ended the run
    \* ---- cmd_clear
    clearpc,       \* position of cmd_clear
    jobs,          \* sids of the jobs the service lists, in listing order
    my_jobs,       \* my_jobs
    clearIdx,      \* position of the for loop in my_jobs
    delSent,       \* delSent[sid]: number of DELETE requests sent for sid (history)
    delOk,         \* sids whose DELETE succeeded (history)
    deleted,       \* deleted
    reported       \* the count printed at the end (-1: none)

clientVars == <<pc, sid, state, seen_count, new_results, yielded, err>>
svcVars == <<svcState, svcRows>>
histVars == <<reqs, lastOffset, failedReq, sawFailed, lastAuth, submitted,
              lastTarget>>
paramVars == <<max_results, stream, op, svcCapped, jobRows, query>>
authVars == <<creds, token, session_key>>
cmdVars == <<profiles, args, mainpc, all_results, out, finishedQ, completionSeq,
             mergedSeq, runErr>>
clearVars == <<clearpc, jobs, my_jobs, clearIdx, delSent, delOk, deleted, reported>>
vars == <<paramVars, clientVars, svcVars, histVars, authVars, cmdVars, clearVars,
          reconsumed>>

\* All rows job w has produced so far, in service order.
SvcRowSeq(w) == [i \in 1..svcRows[w] |-> ServiceRow(w, i)]

\* Rows offset+1.. of the current snapshot, at most count of them when the
\* service honours count. Serves results and results_preview alike.
Snapshot(w, offset, count) ==
    LET n == svcRows[w]
        last == IF svcCapped THEN Min(n, offset + count) ELSE n
    IN  IF offset >= last THEN <<>>
        ELSE [i \in 1..(last - offset) |-> ServiceRow(w, offset + i)]

\* ------------------------------------------------------------ exceptions
NoErr == [type |-> "", msg |-> <<>>]
\* client.py:69  raise RuntimeError(f"HTTP {e.code}: {error_body}")
HttpError == [type |-> "RuntimeError", msg |-> <<"HTTP ", "500", ": ", "body">>]
\* urlopen's URLError / socket error passes through _request uncaught
ConnError == [type |-> "URLError", msg |-> <<"connection failed">>]
\* client.py:129, 171  raise RuntimeError("Search job failed")
JobFailedError(w) == [type |-> "RuntimeError", msg |-> <<"Search job failed">>]

\* What the network and the service do with one request.
Outcomes == {"ok", "http", "conn"}

\* _request: the response on success, RuntimeError on a non-2xx answer, the
\* transport's own exception on a connection failure.
Request(o) ==
    IF o = "ok" THEN NoErr ELSE IF o = "http" THEN HttpError ELSE ConnError

Endpoints == {"login", "submit", "status", "results", "preview", "list", "delete"}
NoReqs == [e \in Endpoints |-> 0]

\* lastAuth before the first request; a request without the header
NoRequest == <<"-">>
NoAuthorization == <<>>

\* (mutant) the session key is preferred to the token
Authorization_KeyFirst(w) ==
    IF session_key[w] # "" THEN <<"Splunk", session_key[w]>>
    ELSE IF token[w] # "" THEN <<"Bearer", token[w]>>
    ELSE NoAuthorization

\* client.py:55-58 (_request) and 187-190 (delete_job, the same lines again):
\* headers["Authorization"]
Authorization(w) ==
    IF token[w] # "" THEN <<"Bearer", token[w]>>
    ELSE IF session_key[w] # "" THEN <<"Splunk", session_key[w]>>
    ELSE NoAuthorization

\* Endpoints under search/jobs/{sid} that search and _stream_results request.
JobEndpoints == {"status", "results", "preview"}

\* (mutant) the workers keep the job identifier in one shared place
JobUrlSid_Shared(w) == sid[1]

\* client.py:122, 135, 146, 154  f"/services/search/jobs/{sid}...": the sid
\* local to this call.
JobUrlSid(w) == sid[w]

\* (mutant) the client logs in again before every request
Sent_Relogin(w, e, o) ==
    /\ reqs' = [reqs EXCEPT ![w] = [x \in Endpoints |->
                    IF x \in {e, "login"} THEN Min(reqs[w][x] + 1, MaxCount)
                    ELSE reqs[w][x]]]
    /\ failedReq' = [failedReq EXCEPT ![w] = @ \/ o # "ok"]
    /\ lastAuth' = [lastAuth EXCEPT ![w] = Authorization(w)]
    /\ lastTarget' = [lastTarget EXCEPT ![w] = IF e \in JobEndpoints THEN JobUrlSid(w) ELSE @]

\* History: worker w sends one request to endpoint e with outcome o.
Sent(w, e, o) ==
    /\ reqs' = [reqs EXCEPT ![w][e] = Min(@ + 1, MaxCount)]
    /\ failedReq' = [failedReq EXCEPT ![w] = @ \/ o # "ok"]
    /\ lastAuth' = [lastAuth EXCEPT ![w] = Authorization(w)]
    /\ lastTarget' = [lastTarget EXCEPT ![w] = IF e \in JobEndpoints THEN JobUrlSid(w) ELSE @]

\* (mutant) a failed request is sent again instead of raising
Raise_Retry(w, e) == UNCHANGED <<pc, err>>

\* The operation of worker w ends by raising e.
Raise(w, e) ==
    /\ pc' = [pc EXCEPT ![w] = "raised"]
    /\ err' = [err EXCEPT ![w] = e]

\* ------------------------------------------------------ SplunkClient.search
\* Text as a sequence of characters.
Pipe == <<"|">>
PipeHead == <<"|", " ", "h", "e", "a", "d">>
SearchPrefix == <<"s", "e", "a", "r", "c", "h", " ">>
HeadSuffix == <<" ", "|", " ", "h", "e", "a", "d", " ">>
Whitespace == {" ", "\t", "\n"}

RECURSIVE lstrip(_)
lstrip(s) == IF s # <<>> /\ Head(s) \in Whitespace THEN lstrip(Tail(s)) ELSE s
RECURSIVE rstrip(_)
rstrip(s) ==
    IF s # <<>> /\ s[Len(s)] \in Whitespace THEN rstrip(SubSeq(s, 1, Len(s) - 1)) ELSE s
\* str.strip()
strip(s) == rstrip(lstrip(s))

\* str.lower(), on the letters of the model
LowerChar(c) ==
    CASE c = "H" -> "h" [] c = "E" -> "e" [] c = "A" -> "a" [] c = "D" -> "d"
      [] c = "X" -> "x" [] OTHER -> c
lower(s) == [i \in 1..Len(s) |-> LowerChar(s[i])]

\* str.startswith(p)
startswith(s, p) == Len(s) >= Len(p) /\ SubSeq(s, 1, Len(p)) = p
\* sub in s
contains(s, sub) ==
    \E i \in 1..(Len(s) - Len(sub) + 1) : SubSeq(s, i, i + Len(sub) - 1) = sub

RECURSIVE str(_)
\* f"{max_results}" of a non-negative int
str(n) == IF n < 10 THEN <<Digit(n)>> ELSE str(n \div 10) \o <<Digit(n % 10)>>

\* (mutant) the head stage is looked for in the text as typed
SearchText_CaseSensitive(q, n) ==
    LET spl == IF startswith(strip(q), Pipe) THEN q ELSE SearchPrefix \o q
    IN  IF ~contains(spl, PipeHead) THEN spl \o HeadSuffix \o str(n) ELSE spl

\* client.py:97-105  spl, the value of data["search"]
SearchText(q, n) ==
    LET spl == IF startswith(strip(q), Pipe) THEN q ELSE SearchPrefix \o q
    IN  IF ~contains(lower(spl), PipeHead) THEN spl \o HeadSuffix \o str(n) ELSE spl

\* client.py:115  if stream: ... else: ...
AfterSubmit(w) == IF stream[w] THEN "s_poll" ELSE "b_poll"

\* client.py:96-116. The generator's first step: the job is submitted when
\* the sequence is first consumed. The service creates the job on success.
SearchStart(w) ==
    /\ op[w] = "search" /\ pc[w] = "idle"
    /\ \E o \in Outcomes :
        /\ Sent(w, "submit", o)
        /\ IF o = "ok"
           THEN /\ sid' = [sid EXCEPT ![w] = SidOf(w)]
                /\ svcState' = [svcState EXCEPT ![w] = "QUEUED"]
                /\ pc' = [pc EXCEPT ![w] = AfterSubmit(w)]
                /\ UNCHANGED err
           ELSE /\ Raise(w, Request(o))
                /\ UNCHANGED <<sid, svcState>>
    /\ submitted' = [submitted EXCEPT ![w] = SearchText(query, max_results)]
    /\ UNCHANGED <<paramVars, clearVars, reconsumed, state, seen_count, new_results, yielded,
                   svcRows, lastOffset, sawFailed>>

\* (mutant) a failed job leaves the loop like a finished one
BatchAfterPoll_FailedBreaks(s) ==
    IF s \in {"DONE", "FAILED"} THEN "b_results" ELSE "b_poll"

\* (mutant) a state the client does not know is taken for a failure
BatchAfterPoll_UnknownFails(s) ==
    IF s = "DONE" THEN "b_results"
    ELSE IF s \in {"QUEUED", "RUNNING"} THEN "b_poll" ELSE "raised"

\* (mutant) a finished job is polled again
BatchAfterPoll_PollsOn(s) ==
    IF s = "FAILED" THEN "raised" ELSE "b_poll"

\* (mutant) the results are fetched whenever the job is not FAILED
BatchAfterPoll_NoWait(s) ==
    IF s = "FAILED" THEN "raised" ELSE "b_results"

\* client.py:126-130: what the batch loop does with an observed state.
BatchAfterPoll(s) ==
    IF s = "DONE" THEN "b_results" ELSE IF s = "FAILED" THEN "raised" ELSE "b_poll"

\* client.py:119-130. One turn of the batch loop: the status request, then
\* break on DONE, raise on FAILED, else sleep 0.5 s and poll again.
BatchPoll(w) ==
    /\ pc[w] = "b_poll"
    /\ \E o \in Outcomes :
        /\ Sent(w, "status", o)
        /\ IF o = "ok"
           THEN /\ state' = [state EXCEPT ![w] = svcState[w]]
                /\ sawFailed' = [sawFailed EXCEPT ![w] = @ \/ svcState[w] = "FAILED"]
                /\ pc' = [pc EXCEPT ![w] = BatchAfterPoll(svcState[w])]
                /\ err' = [err EXCEPT ![w] =
                              IF BatchAfterPoll(svcState[w]) = "raised"
                              THEN JobFailedError(w) ELSE @]
           ELSE /\ Raise(w, Request(o))
                /\ UNCHANGED <<state, sawFailed>>
    /\ UNCHANGED <<paramVars, clearVars, reconsumed, sid, seen_count, new_results, yielded,
                   svcVars, lastOffset, submitted>>

\* client.py:133-138. The single results request, count = max_results.
BatchResults(w) ==
    /\ pc[w] = "b_results"
    /\ \E o \in Outcomes :
        /\ Sent(w, "results", o)
        /\ IF o = "ok"
           THEN /\ new_results' = [new_results EXCEPT ![w] = Snapshot(w, 0, max_results)]
                /\ pc' = [pc EXCEPT ![w] = "b_yield"]
                /\ UNCHANGED err
           ELSE /\ Raise(w, Request(o))
                /\ UNCHANGED new_results
    /\ UNCHANGED <<paramVars, clearVars, reconsumed, sid, state, seen_count, yielded,
                   svcVars, lastOffset, submitted, sawFailed>>

\* client.py:138  yield from results.get("results", []): one row per step,
\* then the generator ends.
BatchYield(w) ==
    /\ pc[w] = "b_yield"
    /\ IF new_results[w] # <<>>
       THEN /\ yielded' = [yielded EXCEPT ![w] = Append(@, Head(new_results[w]))]
            /\ new_results' = [new_results EXCEPT ![w] = Tail(@)]
            /\ UNCHANGED pc
       ELSE /\ pc' = [pc EXCEPT ![w] = "done"]
            /\ UNCHANGED <<yielded, new_results>>
    /\ UNCHANGED <<paramVars, clearVars, reconsumed, sid, state, seen_count, err, svcVars, histVars>>

\* (mutant) asking the ended sequence for a row runs the search again
Reconsume_Restart(w) ==
    /\ op[w] = "search" /\ pc[w] \in {"done", "raised"} /\ ~reconsumed[w]
    /\ reconsumed' = [reconsumed EXCEPT ![w] = TRUE]
    /\ pc' = [pc EXCEPT ![w] = "idle"]
    /\ UNCHANGED <<paramVars, clearVars, sid, state, seen_count, new_results, yielded,
                   err, svcVars, histVars>>

\* client.py:87-138: search is a generator function. Once its body has
\* returned or raised, next() on the generator raises StopIteration and runs
\* none of the body.
Reconsume(w) ==
    /\ op[w] = "search" /\ pc[w] \in {"done", "raised"} /\ ~reconsumed[w]
    /\ reconsumed' = [reconsumed EXCEPT ![w] = TRUE]
    /\ UNCHANGED <<paramVars, clearVars, clientVars, svcVars, histVars>>

\* ------------------------------------------- SplunkClient._stream_results
\* client.py:144-149. The status request of one turn of the streaming loop.
StreamPoll(w) ==
    /\ pc[w] = "s_poll"
    /\ \E o \in Outcomes :
        /\ Sent(w, "status", o)
        /\ IF o = "ok"
           THEN /\ state' = [state EXCEPT ![w] = svcState[w]]
                /\ sawFailed' = [sawFailed EXCEPT ![w] = @ \/ svcState[w] = "FAILED"]
                /\ pc' = [pc EXCEPT ![w] = "s_preview"]
                /\ UNCHANGED err
           ELSE /\ Raise(w, Request(o))
                /\ UNCHANGED <<state, sawFailed>>
    /\ UNCHANGED <<paramVars, clearVars, reconsumed, sid, seen_count, new_results, yielded,
                   svcVars, lastOffset, submitted>>

\* (mutant) every preview request restarts at offset 0
PreviewOffset_Restart(w) == 0

\* client.py:158  "offset": seen_count
PreviewOffset(w) == seen_count[w]

\* client.py:152-161. The preview request: count = max_results, offset =
\* seen_count; new_results = preview.get("results", []).
StreamPreview(w) ==
    /\ pc[w] = "s_preview"
    /\ \E o \in Outcomes :
        /\ Sent(w, "preview", o)
        /\ lastOffset' = [lastOffset EXCEPT ![w] = PreviewOffset(w)]
        /\ UNCHANGED submitted
        /\ IF o = "ok"
           THEN /\ new_results' = [new_results EXCEPT ![w] =
                                      Snapshot(w, PreviewOffset(w), max_results)]
                /\ pc' = [pc EXCEPT ![w] = "s_yield"]
                /\ UNCHANGED err
           ELSE /\ Raise(w, Request(o))
                /\ UNCHANGED new_results
    /\ UNCHANGED <<paramVars, clearVars, reconsumed, sid, state, seen_count, yielded, svcVars, sawFailed>>

\* client.py:165-166  if seen_count >= max_results: return
CapReached(n) == n >= max_results

\* client.py:162-166. One pass of the for loop: yield the row, count it,
\* return at the cap.
StreamYield(w) ==
    /\ pc[w] = "s_yield" /\ new_results[w] # <<>>
    /\ yielded' = [yielded EXCEPT ![w] = Append(@, Head(new_results[w]))]
    /\ seen_count' = [seen_count EXCEPT ![w] = @ + 1]
    /\ IF CapReached(seen_count[w] + 1)
       THEN /\ pc' = [pc EXCEPT ![w] = "done"]
            /\ new_results' = [new_results EXCEPT ![w] = <<>>]
       ELSE /\ new_results' = [new_results EXCEPT ![w] = Tail(@)]
            /\ UNCHANGED pc
    /\ UNCHANGED <<paramVars, clearVars, reconsumed, sid, state, err, svcVars, histVars>>

\* (mutant) a failed job ends the stream like a finished one
StreamAfterBatch_FailedBreaks(s) ==
    IF s \in {"DONE", "FAILED"} THEN "done" ELSE "s_poll"

\* client.py:168-172: what the streaming loop does once the batch is drained.
StreamAfterBatch(s) ==
    IF s = "DONE" THEN "done" ELSE IF s = "FAILED" THEN "raised" ELSE "s_poll"

\* (mutant) the state is read again after the preview was fetched
LoopState_Fresh(w) == svcState[w]

\* client.py:149, 168: the state tested after the batch is the one the status
\* request of this turn returned, before the preview request.
LoopState(w) == state[w]

\* client.py:168-172. After the for loop: break on DONE, raise on FAILED,
\* else sleep 0.3 s and loop.
StreamAfter(w) ==
    /\ pc[w] = "s_yield" /\ new_results[w] = <<>>
    /\ pc' = [pc EXCEPT ![w] = StreamAfterBatch(LoopState(w))]
    /\ err' = [err EXCEPT ![w] =
                  IF StreamAfterBatch(LoopState(w)) = "raised"
                  THEN JobFailedError(w) ELSE @]
    /\ UNCHANGED <<paramVars, clearVars, reconsumed, sid, state, seen_count, new_results, yielded,
                   svcVars, histVars>>

\* ------------------------------------------------ job registry operations
\* client.py:174-181. One GET of search/jobs.
ListJobs(w) ==
    /\ op[w] = "list_jobs" /\ pc[w] = "idle"
    /\ \E o \in Outcomes :
        /\ Sent(w, "list", o)
        /\ IF o = "ok"
           THEN pc' = [pc EXCEPT ![w] = "done"] /\ UNCHANGED err
           ELSE Raise(w, Request(o))
    /\ UNCHANGED <<paramVars, clearVars, reconsumed, sid, state, seen_count, new_results, yielded,
                   svcVars, lastOffset, submitted, sawFailed>>

\* urlopen raises HTTPError itself on a non-2xx answer; delete_job does not
\* go through _request.
UrlopenError(o) ==
    IF o = "http" THEN [type |-> "HTTPError", msg |-> <<"500", "body">>] ELSE ConnError

\* (mutant) a search that has ended deletes its job
DeleteJob_AfterSearch(w) ==
    /\ op[w] = "search" /\ pc[w] \in {"done", "raised"} /\ svcState[w] # "NONE"
    /\ Sent(w, "delete", "ok")
    /\ svcState' = [svcState EXCEPT ![w] = "NONE"]
    /\ svcRows' = [svcRows EXCEPT ![w] = 0]
    /\ UNCHANGED <<paramVars, clearVars, reconsumed, clientVars, lastOffset, submitted, sawFailed>>

\* client.py:183-193. One DELETE of search/jobs/{sid}; the job is gone on
\* success.
DeleteJob(w) ==
    /\ op[w] = "delete_job" /\ pc[w] = "idle"
    /\ \E o \in Outcomes :
        /\ Sent(w, "delete", o)
        /\ IF o = "ok"
           THEN /\ pc' = [pc EXCEPT ![w] = "done"]
                /\ svcState' = [svcState EXCEPT ![w] = "NONE"]
                /\ svcRows' = [svcRows EXCEPT ![w] = 0]
                /\ UNCHANGED err
           ELSE /\ Raise(w, UrlopenError(o))
                /\ UNCHANGED svcVars
    /\ UNCHANGED <<paramVars, clearVars, reconsumed, sid, state, seen_count, new_results, yielded,
                   lastOffset, submitted, sawFailed>>

\* ------------------------------------------------------ the service's steps
\* A running job appends one row to its results.
SvcProduce(w) ==
    /\ svcState[w] = "RUNNING" /\ svcRows[w] < jobRows[w]
    /\ svcRows' = [svcRows EXCEPT ![w] = @ + 1]
    /\ UNCHANGED <<paramVars, clearVars, reconsumed, clientVars, svcState, histVars>>

\* A job that is not DONE or FAILED moves on to any later dispatch state;
\* DONE and FAILED are final.
SvcAdvance(w) ==
    /\ svcState[w] \in NonTerminal
    /\ \E s \in DispatchStates :
        /\ Rank(s) > Rank(svcState[w])
        /\ svcState' = [svcState EXCEPT ![w] = s]
    /\ UNCHANGED <<paramVars, clearVars, reconsumed, clientVars, svcRows, histVars>>

\* ------------------------------------------------------------ get_client
\* What credentials.toml can hold for a profile: a token; a username and a
\* password; a username without a password; no host; no such profile.
CredKinds == {"token", "userpass", "nopass", "nohost", "missing"}

\* config.py:44, 60, 74  sys.exit(1)
SystemExit == [type |-> "SystemExit", msg |-> <<"1">>]
\* client.py:77  raise ValueError(...)
ValueError == [type |-> "ValueError", msg |-> <<"Username and password required">>]

\* (mutant) username and password are not checked before the login request
ConfigError_HostOnly(c) ==
    IF c \in {"missing", "nohost"} THEN SystemExit ELSE NoErr

\* config.py:59-60, 72-74 and client.py:76-77: what get_client fails with
\* before it sends anything, NoErr if the profile passes.
ConfigError(c) ==
    CASE c \in {"missing", "nohost"} -> SystemExit
      [] c = "nopass" -> ValueError
      [] OTHER -> NoErr

\* config.py:63-85 with get_profile (27-60) and SplunkClient.login
\* (client.py:71-85): exit without a profile or a host; with a token login is
\* a no-op; without username or password it raises; else one POST to
\* auth/login, whose session key the client keeps.
GetClient(w) ==
    /\ pc[w] = "getclient"
    /\ CASE creds[w] = "token" ->
              /\ token' = [token EXCEPT ![w] = "tok"]
              /\ pc' = [pc EXCEPT ![w] = "idle"]
              /\ UNCHANGED <<err, session_key, reqs, failedReq, lastAuth, lastTarget>>
         [] creds[w] # "token" /\ ConfigError(creds[w]) # NoErr ->
              /\ Raise(w, ConfigError(creds[w]))
              /\ UNCHANGED <<token, session_key, reqs, failedReq, lastAuth, lastTarget>>
         [] OTHER ->
              \E o \in Outcomes :
                  /\ Sent(w, "login", o)
                  /\ IF o = "ok"
                     THEN /\ session_key' = [session_key EXCEPT ![w] = "key"]
                          /\ pc' = [pc EXCEPT ![w] = "idle"]
                          /\ UNCHANGED err
                     ELSE /\ Raise(w, Request(o))
                          /\ UNCHANGED session_key
                  /\ UNCHANGED token
    /\ UNCHANGED <<paramVars, clearVars, reconsumed, sid, state, seen_count, new_results, yielded,
                   svcVars, lastOffset, submitted, sawFailed, creds, cmdVars>>

\* ------------------------------------------------------------- cmd_search
\* cli.py:180  the default profile is None
None == <<"None">>
\* The names given with -p, in order.
ProfileName(i) == << <<"q", "a">>, <<"p", "r", "o", "d">>, <<"d", "e", "v">>,
                     <<"u", "a", "t">> >>[i]

NProfiles == Len(profiles)
Multi == NProfiles > 1

\* cli.py:17  INTERNAL_FIELDS
INTERNAL_FIELDS == {"_bkt", "_cd", "_indextime", "_serial", "_sourcetype", "_subsecond"}
\* cli.py:19, 38  k.startswith(("_si",)), on the field names of the model
HasInternalPrefix(k) == k \in {"_si", "_si[0]", "_si[1]"}

\* cli.py:33-39
filter_internal_fields(row) ==
    [k \in {f \in DOMAIN row : f \notin INTERNAL_FIELDS /\ ~HasInternalPrefix(f)} |-> row[k]]

\* cli.py:28-29  s[:width] + "..." if len(s) > width else v
TruncValue(v, width) ==
    IF Len(v) > width THEN SubSeq(v, 1, width) \o <<".", ".", ".">> ELSE v

\* cli.py:22-30
truncate_fields(row, width) ==
    IF width = 0 THEN row ELSE [k \in DOMAIN row |-> TruncValue(row[k], width)]

\* cli.py:186  {"_profile": profile, **row}: the row's own fields come last,
\* and a later key replaces an earlier one.
Tagged(row, profile) == row @@ ("_profile" :> profile)

\* cli.py:184-191
transform(row, profile) ==
    LET r1 == IF profile # None /\ NProfiles > 1 THEN Tagged(row, profile) ELSE row
        r2 == IF ~args.internal THEN filter_internal_fields(r1) ELSE r1
    IN  IF args.width # 0 THEN truncate_fields(r2, args.width) ELSE r2

\* (mutant) the rows of a profile are merged last row first
TransformAll_Reversed(rows, profile) ==
    [i \in 1..Len(rows) |-> transform(rows[Len(rows) + 1 - i], profile)]

\* cli.py:220, 238-239  transform applied to each row in turn
TransformAll(rows, profile) == [i \in 1..Len(rows) |-> transform(rows[i], profile)]

\* cli.py:181
use_streaming == args.format = "table" /\ ~args.output /\ NProfiles = 1

\* (mutant) every search streams when use_streaming's format and output
\* conditions hold
StreamArg_AnyCount(w) == w <= NProfiles /\ args.format = "table" /\ ~args.output

\* The stream argument of the search of profile w: use_streaming with one
\* profile (cli.py:201), False in _search_one_profile (cli.py:172).
StreamArg(w) == IF NProfiles = 1 THEN w = 1 /\ use_streaming ELSE FALSE

\* cli.py:194-202: one profile. The client is built and the search runs in
\* the main thread.
CmdStartSingle ==
    /\ mainpc = "start" /\ NProfiles = 1
    /\ mainpc' = "single"
    /\ pc' = [pc EXCEPT ![1] = "getclient"]
    /\ UNCHANGED <<paramVars, clearVars, reconsumed, sid, state, seen_count, new_results, yielded, err,
                   svcVars, histVars, authVars, profiles, args, all_results, out,
                   finishedQ, completionSeq, mergedSeq, runErr>>

\* cli.py:217-220, 259-266: the rows go to the output function, one by one
\* as they are yielded when streaming, as one list otherwise; an exception
\* of get_client or of the search ends the run (cli.py:588-592).
SingleEnd ==
    /\ mainpc = "single" /\ pc[1] \in {"done", "raised"}
    /\ IF pc[1] = "done"
       THEN /\ out' = TransformAll(yielded[1], None)
            /\ mainpc' = "exit0"
            /\ UNCHANGED runErr
       ELSE /\ mainpc' = "failed"
            /\ runErr' = err[1]
            /\ out' = IF use_streaming THEN TransformAll(yielded[1], None) ELSE out
    /\ UNCHANGED <<paramVars, clearVars, reconsumed, clientVars, svcVars, histVars, authVars, profiles,
                   args, all_results, finishedQ, completionSeq, mergedSeq>>

\* cli.py:224-235: executor.submit for each profile in turn; the worker
\* starts _search_one_profile at once.
ExecSubmit ==
    /\ mainpc = "start" /\ NProfiles > 1
    /\ \E w \in 1..NProfiles :
        /\ pc[w] = "off" /\ \A v \in 1..(w - 1) : pc[v] # "off"
        /\ pc' = [pc EXCEPT ![w] = "getclient"]
        /\ mainpc' = IF w = NProfiles THEN "as_completed" ELSE "start"
    /\ UNCHANGED <<paramVars, clearVars, reconsumed, sid, state, seen_count, new_results, yielded, err,
                   svcVars, histVars, authVars, profiles, args, all_results, out,
                   finishedQ, completionSeq, mergedSeq, runErr>>

\* cli.py:175 and the executor: _search_one_profile returned or raised, its
\* future is finished.
FutureDone(w) ==
    /\ Multi /\ pc[w] \in {"done", "raised"}
    /\ \A i \in 1..Len(finishedQ) : finishedQ[i] # w
    /\ \A i \in 1..Len(mergedSeq) : mergedSeq[i] # w
    /\ finishedQ' = Append(finishedQ, w)
    /\ completionSeq' = Append(completionSeq, w)
    /\ UNCHANGED <<paramVars, clearVars, reconsumed, clientVars, svcVars, histVars, authVars, profiles,
                   args, mainpc, all_results, out, mergedSeq, runErr>>

Perms(q) ==
    {p \in [1..Len(q) -> 1..Len(q)] : \A i, j \in 1..Len(q) : p[i] = p[j] => i = j}

\* cli.py:236  as_completed(futures) starts: the futures already finished
\* are a set, yielded in no particular order; those finishing later are
\* yielded in the order they finish.
AsCompleted ==
    /\ mainpc = "as_completed"
    /\ \E p \in Perms(finishedQ) :
        finishedQ' = [i \in 1..Len(finishedQ) |-> finishedQ[p[i]]]
    /\ mainpc' = "merge"
    /\ UNCHANGED <<paramVars, clearVars, reconsumed, clientVars, svcVars, histVars, authVars, profiles,
                   args, all_results, out, completionSeq, mergedSeq, runErr>>

\* (mutant) the loop skips a profile whose search failed
FutureRaises_Swallowed(w) == FALSE

\* cli.py:237  future.result() returns the worker's (profile, results) or
\* raises the worker's exception; the loop has no try.
FutureRaises(w) == pc[w] = "raised"

\* cli.py:236-239: take the next finished future; merge its rows, tagged, or
\* leave the loop with its exception.
MergeNext ==
    /\ mainpc = "merge" /\ finishedQ # <<>>
    /\ LET w == Head(finishedQ)
       IN  /\ finishedQ' = Tail(finishedQ)
           /\ mergedSeq' = Append(mergedSeq, w)
           /\ IF FutureRaises(w)
              THEN /\ mainpc' = "join"
                   /\ runErr' = err[w]
                   /\ UNCHANGED all_results
              ELSE /\ all_results' = all_results \o TransformAll(yielded[w], profiles[w])
                   /\ mainpc' = IF Len(mergedSeq) + 1 = NProfiles THEN "format" ELSE "merge"
                   /\ UNCHANGED runErr
    /\ UNCHANGED <<paramVars, clearVars, reconsumed, clientVars, svcVars, histVars, authVars, profiles,
                   args, out, completionSeq>>

\* (mutant) the executor is left without waiting for its workers
AllWorkersEnded_NoWait == TRUE

\* cli.py:224  ThreadPoolExecutor.__exit__: shutdown(wait=True) returns when
\* every worker has returned or raised.
AllWorkersEnded == \A w \in 1..NProfiles : pc[w] \in {"done", "raised"}

\* cli.py:224 and 588-592: leaving the with block on an exception waits for
\* every worker (shutdown(wait=True)); then main reports the error and exits
\* with status 1.
Join ==
    /\ mainpc = "join"
    /\ AllWorkersEnded
    /\ mainpc' = "failed"
    /\ UNCHANGED <<paramVars, clearVars, reconsumed, clientVars, svcVars, histVars, authVars, profiles,
                   args, all_results, out, finishedQ, completionSeq,
                   mergedSeq, runErr>>

\* cli.py:257-266: the merged rows go to the output function.
Format ==
    /\ mainpc = "format"
    /\ out' = all_results
    /\ mainpc' = "exit0"
    /\ UNCHANGED <<paramVars, clearVars, reconsumed, clientVars, svcVars, histVars, authVars, profiles,
                   args, all_results, finishedQ, completionSeq, mergedSeq,
                   runErr>>

\* --------------------------------------------------------------- cmd_clear
\* cli.py:278  "scheduler_"
SchedulerPrefix == <<"s", "c", "h", "e", "d", "u", "l", "e", "r", "_">>

\* Job identifiers a listing can hold: two scheduler jobs, one whose name
\* begins like the prefix without being it, two others.
JobIds ==
    { SchedulerPrefix \o <<"1">>, SchedulerPrefix \o <<"2">>,
      <<"s", "c", "h", "e", "d", "1">>, <<"r", "t", "_", "7">>, <<"a", "9">> }

MaxJobs == 3

\* The listings of at most MaxJobs different jobs, in any order.
Listings ==
    UNION {{l \in [1..n -> JobIds] : \A i, j \in 1..n : l[i] = l[j] => i = j} : n \in 0..MaxJobs}

\* (mutant) every listed job is taken for the user's own
IsMine_All(j) == TRUE

\* cli.py:277-279  not j["content"].get("sid", "").startswith("scheduler_")
IsMine(j) == ~startswith(j, SchedulerPrefix)

RECURSIVE SelectMine(_)
\* cli.py:277-279  the list comprehension: the own jobs, in listing order
SelectMine(l) ==
    IF l = <<>> THEN <<>>
    ELSE IF IsMine(Head(l)) THEN <<Head(l)>> \o SelectMine(Tail(l))
    ELSE SelectMine(Tail(l))

\* cmd_clear is not running.
NoClear ==
    /\ clearpc = "none"
    /\ jobs = <<>>
    /\ my_jobs = <<>>
    /\ clearIdx = 0
    /\ delSent = [j \in JobIds |-> 0]
    /\ delOk = {}
    /\ deleted = 0
    /\ reported = -1

\* cli.py:274-283: the one list_jobs call and the filter; without own jobs
\* the command prints "No jobs to clear." and returns. An exception of
\* get_client or list_jobs ends the command (cli.py:588-592).
ClearList ==
    /\ clearpc = "list" /\ pc[1] \in {"idle", "raised"}
    /\ IF pc[1] = "raised"
       THEN /\ clearpc' = "failed"
            /\ UNCHANGED <<pc, err, histVars, my_jobs>>
       ELSE \E o \in Outcomes :
              /\ Sent(1, "list", o)
              /\ IF o = "ok"
                 THEN /\ my_jobs' = SelectMine(jobs)
                      /\ clearpc' = IF SelectMine(jobs) = <<>> THEN "nojobs" ELSE "loop"
                      /\ UNCHANGED <<pc, err>>
                 ELSE /\ Raise(1, Request(o))
                      /\ clearpc' = "failed"
                      /\ UNCHANGED my_jobs
              /\ UNCHANGED <<lastOffset, submitted, sawFailed>>
    /\ clearIdx' = 1
    /\ UNCHANGED <<paramVars, reconsumed, sid, state, seen_count, new_results, yielded,
                   svcVars, authVars, cmdVars, jobs, delSent, delOk, deleted, reported>>

\* cli.py:286-292: one turn of the for loop: delete_job(sid) inside try;
\* deleted += 1 when it returns, except Exception: pass when it raises.
ClearDelete ==
    /\ clearpc = "loop" /\ clearIdx <= Len(my_jobs)
    /\ LET j == my_jobs[clearIdx]
       IN  \E o \in Outcomes :
              /\ Sent(1, "delete", o)
              /\ delSent' = [delSent EXCEPT ![j] = @ + 1]
              /\ IF o = "ok"
                 THEN /\ deleted' = deleted + 1
                      /\ delOk' = delOk \cup {j}
                 ELSE UNCHANGED <<deleted, delOk>>
    /\ clearIdx' = clearIdx + 1
    /\ UNCHANGED <<paramVars, reconsumed, clientVars, svcVars, lastOffset, submitted,
                   sawFailed, authVars, cmdVars, clearpc, jobs, my_jobs, reported>>

\* cli.py:294  print(f"Cleared {deleted} job(s).")
ClearReport ==
    /\ clearpc = "loop" /\ clearIdx > Len(my_jobs)
    /\ reported' = deleted
    /\ clearpc' = "exit0"
    /\ UNCHANGED <<paramVars, reconsumed, clientVars, svcVars, histVars, authVars,
                   cmdVars, jobs, my_jobs, clearIdx, delSent, delOk, deleted>>

\* splank clear: the profile's credentials and the jobs the service lists.
InitClear ==
    /\ clearpc = "list"
    /\ jobs \in Listings
    /\ my_jobs = <<>>
    /\ clearIdx = 0
    /\ delSent = [j \in JobIds |-> 0]
    /\ delOk = {}
    /\ deleted = 0
    /\ reported = -1
    /\ max_results = MaxCap
    /\ query = <<"x">>
    /\ svcCapped = TRUE
    /\ jobRows = [w \in Workers |-> 0]
    /\ op = [w \in Workers |-> "none"]
    /\ stream = [w \in Workers |-> FALSE]
    /\ svcState = [w \in Workers |-> "NONE"]
    /\ svcRows = [w \in Workers |-> 0]
    /\ pc = [w \in Workers |-> IF w = 1 THEN "getclient" ELSE "off"]
    /\ sid = [w \in Workers |-> NoSid]
    /\ state = [w \in Workers |-> ""]
    /\ seen_count = [w \in Workers |-> 0]
    /\ new_results = [w \in Workers |-> <<>>]
    /\ yielded = [w \in Workers |-> <<>>]
    /\ err = [w \in Workers |-> NoErr]
    /\ reqs = [w \in Workers |-> NoReqs]
    /\ lastOffset = [w \in Workers |-> -1]
    /\ failedReq = [w \in Workers |-> FALSE]
    /\ sawFailed = [w \in Workers |-> FALSE]
    /\ lastAuth = [w \in Workers |-> NoRequest]
    /\ submitted = [w \in Workers |-> <<>>]
    /\ lastTarget = [w \in Workers |-> NoSid]
    /\ reconsumed = [w \in Workers |-> FALSE]
    /\ \E c \in {"token", "userpass", "nohost"} :
          creds = [w \in Workers |-> IF w = 1 THEN c ELSE "missing"]
    /\ token = [w \in Workers |-> ""]
    /\ session_key = [w \in Workers |-> ""]
    /\ profiles = <<None>>
    /\ args = [format |-> "json", output |-> FALSE, internal |-> FALSE, width |-> 0]
    /\ mainpc = "clear"
    /\ all_results = <<>>
    /\ out = <<>>
    /\ finishedQ = <<>>
    /\ completionSeq = <<>>
    /\ mergedSeq = <<>>
    /\ runErr = NoErr

NextClear ==
    \/ GetClient(1)
    \/ ClearList
    \/ ClearDelete
    \/ ClearReport

SpecClear == InitClear /\ [][NextClear]_vars

\* The command lines of the model: --format / --output / --internal / --width
\* (0: no limit). --zoom is not given. With several profiles format and
\* output only select the output function, so one value of each is kept.
ArgChoices ==
    { [format |-> "table", output |-> FALSE, internal |-> FALSE, width |-> 0],
      [format |-> "json",  output |-> FALSE, internal |-> TRUE,  width |-> 3],
      [format |-> "table", output |-> TRUE,  internal |-> FALSE, width |-> 3] }
ArgChoicesMulti == {a \in ArgChoices : ~a.output}

\* splank search: the arguments, the credentials file, the services.
InitCmd ==
    /\ max_results = MaxCap
    /\ svcCapped = TRUE
    /\ jobRows = [w \in Workers |-> IF w < MaxRows THEN MaxRows - w ELSE 0]
    /\ \E n \in 1..MaxProfiles :
        /\ args \in (IF n = 1 THEN ArgChoices ELSE ArgChoicesMulti)
        /\ profiles \in (IF n = 1 THEN {<<None>>, <<ProfileName(1)>>}
                         ELSE {[i \in 1..n |-> ProfileName(i)]})
        /\ op = [w \in Workers |-> IF w <= n THEN "search" ELSE "none"]
        /\ creds \in [Workers -> (IF n = 1 THEN CredKinds ELSE {"token", "nohost"})]
        /\ \A w \in Workers : w > n => creds[w] = "token"
    /\ stream = [w \in Workers |-> StreamArg(w)]
    /\ svcState = [w \in Workers |-> "NONE"]
    /\ svcRows = [w \in Workers |-> 0]
    /\ pc = [w \in Workers |-> "off"]
    /\ sid = [w \in Workers |-> NoSid]
    /\ state = [w \in Workers |-> ""]
    /\ seen_count = [w \in Workers |-> 0]
    /\ new_results = [w \in Workers |-> <<>>]
    /\ yielded = [w \in Workers |-> <<>>]
    /\ err = [w \in Workers |-> NoErr]
    /\ reqs = [w \in Workers |-> NoReqs]
    /\ lastOffset = [w \in Workers |-> -1]
    /\ failedReq = [w \in Workers |-> FALSE]
    /\ sawFailed = [w \in Workers |-> FALSE]
    /\ lastAuth = [w \in Workers |-> NoRequest]
    /\ submitted = [w \in Workers |-> <<>>]
    /\ lastTarget = [w \in Workers |-> NoSid]
    /\ reconsumed = [w \in Workers |-> FALSE]
    /\ query = <<"x">>
    /\ token = [w \in Workers |-> ""]
    /\ session_key = [w \in Workers |-> ""]
    /\ mainpc = "start"
    /\ all_results = <<>>
    /\ out = <<>>
    /\ finishedQ = <<>>
    /\ completionSeq = <<>>
    /\ mergedSeq = <<>>
    /\ runErr = NoErr
    /\ NoClear

NextCmd ==
    \/ CmdStartSingle
    \/ SingleEnd
    \/ ExecSubmit
    \/ AsCompleted
    \/ MergeNext
    \/ Join
    \/ Format
    \/ \E w \in Workers :
        \/ GetClient(w)
        \/ FutureDone(w)
        \/ /\ \/ SearchStart(w)
              \/ BatchPoll(w)
              \/ BatchResults(w)
              \/ BatchYield(w)
              \/ StreamPoll(w)
              \/ StreamPreview(w)
              \/ StreamYield(w)
              \/ StreamAfter(w)
              \/ SvcProduce(w)
              \/ SvcAdvance(w)
           /\ UNCHANGED <<authVars, cmdVars>>

SpecCmd == InitCmd /\ [][NextCmd]_vars

\* --------------------------------------------------- one client, one call
Ops == {"search", "list_jobs", "delete_job"}

\* One client and one operation on it. Either the client is still to be
\* built by get_client from any kind of profile, or it is a client object
\* with self.token and self.session_key each set or not. delete_job is given
\* a job that exists; search creates its own.
Init ==
    /\ max_results \in 0..MaxCap
    /\ svcCapped \in BOOLEAN
    /\ jobRows = [w \in Workers |-> MaxRows]
    /\ \E o \in Ops, st \in BOOLEAN :
        /\ op = [w \in Workers |-> IF w = 1 THEN o ELSE "none"]
        /\ stream = [w \in Workers |-> w = 1 /\ o = "search" /\ st]
        /\ \E s \in DispatchStates, n \in 0..MaxRows :
            /\ svcState = [w \in Workers |-> IF w = 1 /\ o = "delete_job" THEN s ELSE "NONE"]
            /\ svcRows = [w \in Workers |-> IF w = 1 /\ o = "delete_job" THEN n ELSE 0]
    /\ sid = [w \in Workers |-> NoSid]
    /\ state = [w \in Workers |-> ""]
    /\ seen_count = [w \in Workers |-> 0]
    /\ new_results = [w \in Workers |-> <<>>]
    /\ yielded = [w \in Workers |-> <<>>]
    /\ err = [w \in Workers |-> NoErr]
    /\ reqs = [w \in Workers |-> NoReqs]
    /\ lastOffset = [w \in Workers |-> -1]
    /\ failedReq = [w \in Workers |-> FALSE]
    /\ sawFailed = [w \in Workers |-> FALSE]
    /\ lastAuth = [w \in Workers |-> NoRequest]
    /\ submitted = [w \in Workers |-> <<>>]
    /\ lastTarget = [w \in Workers |-> NoSid]
    /\ reconsumed = [w \in Workers |-> FALSE]
    /\ query = <<"x">>
    /\ \/ /\ pc = [w \in Workers |-> IF w = 1 THEN "getclient" ELSE "idle"]
          /\ \E c \in CredKinds :
                creds = [w \in Workers |-> IF w = 1 THEN c ELSE "missing"]
          /\ token = [w \in Workers |-> ""]
          /\ session_key = [w \in Workers |-> ""]
       \/ /\ pc = [w \in Workers |-> "idle"]
          /\ \E t \in {"", "tok"}, k \in {"", "key"} :
              /\ creds = [w \in Workers |-> IF w # 1 THEN "missing"
                                              ELSE IF t # "" THEN "token" ELSE "userpass"]
              /\ token = [w \in Workers |-> IF w = 1 THEN t ELSE ""]
              /\ session_key = [w \in Workers |-> IF w = 1 THEN k ELSE ""]
    /\ profiles = <<None>>
    /\ args = [format |-> "json", output |-> FALSE, internal |-> FALSE, width |-> 0]
    /\ mainpc = "library"
    /\ all_results = <<>>
    /\ out = <<>>
    /\ finishedQ = <<>>
    /\ completionSeq = <<>>
    /\ mergedSeq = <<>>
    /\ runErr = NoErr
    /\ NoClear

Next ==
    \E w \in Workers :
        \/ GetClient(w)
        \/ /\ \/ SearchStart(w)
              \/ BatchPoll(w)
              \/ BatchResults(w)
              \/ BatchYield(w)
              \/ StreamPoll(w)
              \/ StreamPreview(w)
              \/ StreamYield(w)
              \/ StreamAfter(w)
              \/ ListJobs(w)
              \/ DeleteJob(w)
              \/ Reconsume(w)
              \/ SvcProduce(w)
              \/ SvcAdvance(w)
           /\ UNCHANGED <<authVars, cmdVars>>

Spec == Init /\ [][Next]_vars

\* One step of the thread that runs worker w's client: get_client, or the
\* next step of the operation (the consumer keeps taking rows, time.sleep
\* returns).
ClientStep(w) ==
    \/ GetClient(w)
    \/ /\ \/ SearchStart(w)
          \/ BatchPoll(w)
          \/ BatchResults(w)
          \/ BatchYield(w)
          \/ StreamPoll(w)
          \/ StreamPreview(w)
          \/ StreamYield(w)
          \/ StreamAfter(w)
          \/ ListJobs(w)
          \/ DeleteJob(w)
       /\ UNCHANGED <<authVars, cmdVars>>

\* Spec with threads that keep running: a client step whose request is
\* answered is eventually taken when it stays possible. Whether a request
\* fails is left to the network, and nothing is assumed of the service.
SpecFair == Spec /\ \A w \in Workers : WF_vars(ClientStep(w) /\ ~failedReq'[w])

\* ------------------------------------------------- search(query, max_results)
\* Pieces of query text: blanks, a pipe, a word, head stages in several
\* letter-casings and spacings.
Fragments ==
    { <<" ">>, <<"|">>, <<"x">>, <<"h", "e", "a", "d">>,
      <<"|", " ", "h", "e", "a", "d">>, <<"|", " ", "H", "E", "A", "D">>,
      <<"|", " ", "H", "e", "a", "d", " ", "5">>, <<"|", "h", "e", "a", "d">>,
      <<"|", " ", " ", "h", "e", "a", "d">> }

MaxFragments == 3

RECURSIVE QueriesOf(_)
\* The query texts of at most n pieces.
QueriesOf(n) ==
    IF n = 0 THEN {<<>>}
    ELSE LET shorter == QueriesOf(n - 1)
         IN  shorter \cup {q \o f : q \in shorter, f \in Fragments}

\* One client with a token and one search call, for every query text and
\* every max_results.
InitQuery ==
    /\ max_results \in 0..MaxCap
    /\ query \in QueriesOf(MaxFragments)
    /\ svcCapped = TRUE
    /\ jobRows = [w \in Workers |-> 0]
    /\ op = [w \in Workers |-> IF w = 1 THEN "search" ELSE "none"]
    /\ stream = [w \in Workers |-> FALSE]
    /\ svcState = [w \in Workers |-> "NONE"]
    /\ svcRows = [w \in Workers |-> 0]
    /\ pc = [w \in Workers |-> "idle"]
    /\ sid = [w \in Workers |-> NoSid]
    /\ state = [w \in Workers |-> ""]
    /\ seen_count = [w \in Workers |-> 0]
    /\ new_results = [w \in Workers |-> <<>>]
    /\ yielded = [w \in Workers |-> <<>>]
    /\ err = [w \in Workers |-> NoErr]
    /\ reqs = [w \in Workers |-> NoReqs]
    /\ lastOffset = [w \in Workers |-> -1]
    /\ failedReq = [w \in Workers |-> FALSE]
    /\ sawFailed = [w \in Workers |-> FALSE]
    /\ lastAuth = [w \in Workers |-> NoRequest]
    /\ submitted = [w \in Workers |-> <<>>]
    /\ lastTarget = [w \in Workers |-> NoSid]
    /\ reconsumed = [w \in Workers |-> FALSE]
    /\ creds = [w \in Workers |-> IF w = 1 THEN "token" ELSE "missing"]
    /\ token = [w \in Workers |-> IF w = 1 THEN "tok" ELSE ""]
    /\ session_key = [w \in Workers |-> ""]
    /\ profiles = <<None>>
    /\ args = [format |-> "json", output |-> FALSE, internal |-> FALSE, width |-> 0]
    /\ mainpc = "library"
    /\ all_results = <<>>
    /\ out = <<>>
    /\ finishedQ = <<>>
    /\ completionSeq = <<>>
    /\ mergedSeq = <<>>
    /\ runErr = NoErr
    /\ NoClear

\* The first step of search: the text is built and submitted.
NextQuery ==
    \E w \in Workers : SearchStart(w) /\ UNCHANGED <<authVars, cmdVars>>

SpecQuery == InitQuery /\ [][NextQuery]_vars

\* ================================================================ claims
IsPrefix(s, t) == Len(s) <= Len(t) /\ \A i \in 1..Len(s) : s[i] = t[i]

Streaming(w) == op[w] = "search" /\ stream[w]
Batch(w) == op[w] = "search" /\ ~stream[w]

\* C1: at every point of a stream call the rows yielded so far are a prefix
\* of the rows the service has produced (nothing twice, nothing skipped, in
\* order), and every preview request carries as its offset the number of rows
\* yielded so far.
C1_StreamPrefixAndOffset ==
    /\ [](\A w \in Workers : Streaming(w) =>
            /\ IsPrefix(yielded[w], SvcRowSeq(w))
            /\ seen_count[w] = Len(yielded[w]))
    /\ [][\A w \in Workers :
            (pc[w] = "s_preview" /\ pc'[w] # "s_preview") =>
                lastOffset'[w] = Len(yielded[w])]_vars

\* C1 witness: a stream that has yielded rows from several preview requests,
\* the last of them sent with an offset above zero.
C1_Witness ==
    \E w \in Workers :
        /\ Streaming(w) /\ Len(yielded[w]) = 3 /\ lastOffset[w] = 2
        /\ reqs[w]["preview"] >= 2

\* C2: a stream call that ended normally below the cap has observed DONE and
\* has yielded exactly all the rows of the job, in service order.
C2_StreamComplete ==
    \A w \in Workers :
        (Streaming(w) /\ pc[w] = "done" /\ seen_count[w] < max_results) =>
            /\ state[w] = "DONE"
            /\ yielded[w] = SvcRowSeq(w)

\* C2 witness: ended on DONE below the cap after rows arrived over several
\* polls.
C2_Witness ==
    \E w \in Workers :
        /\ Streaming(w) /\ pc[w] = "done" /\ state[w] = "DONE"
        /\ seen_count[w] < max_results /\ Len(yielded[w]) = 2
        /\ lastOffset[w] = 1 /\ reqs[w]["preview"] >= 2

\* C3 (as claimed): a stream call yields at most max_results rows, for every
\* max_results >= 0 and every service behaviour, and has ended normally as
\* soon as the count of yielded rows has reached max_results.
C3_StreamCap ==
    \A w \in Workers : Streaming(w) =>
        /\ Len(yielded[w]) <= max_results
        /\ (Len(yielded[w]) >= 1 /\ Len(yielded[w]) >= max_results) => pc[w] = "done"

\* C4 (as claimed): a stream call that has observed FAILED and had no failed
\* request never ends normally; it ends by raising the job-failed error.
\* Stated for max_results >= 1, where the row cap itself works as intended.
C4_StreamFailedAlwaysRaises ==
    \A w \in Workers :
        (Streaming(w) /\ max_results >= 1 /\ sawFailed[w] /\ ~failedReq[w]
           /\ pc[w] \in {"done", "raised"}) =>
            (pc[w] = "raised" /\ err[w] = JobFailedError(w))

\* C4 (amended): after a status poll of a stream call observed FAILED the call
\* polls no more; if no later request fails it raises the job-failed error,
\* unless rows of the preview fetched after that poll bring the count of
\* yielded rows to max_results, the one case in which it ends normally.
C4_StreamFailedRaisesOrCap ==
    \A w \in Workers :
        (Streaming(w) /\ sawFailed[w]) =>
            /\ pc[w] # "s_poll"
            /\ pc[w] = "done" =>
                  (seen_count[w] >= max_results /\ Len(yielded[w]) > lastOffset[w])
            /\ (pc[w] = "raised" /\ ~failedReq[w]) => err[w] = JobFailedError(w)

\* C4 witness: rows were streamed, then a poll observed FAILED and the call
\* raised the job-failed error.
C4_Witness ==
    \E w \in Workers :
        /\ Streaming(w) /\ sawFailed[w] /\ pc[w] = "raised"
        /\ err[w] = JobFailedError(w) /\ Len(yielded[w]) >= 1
        /\ reqs[w]["status"] >= 2

\* C5: a batch search whose status poll observed FAILED has raised the
\* job-failed error, has yielded no row and has never requested the results
\* endpoint.
C5_BatchFailedRaises ==
    \A w \in Workers :
        (Batch(w) /\ sawFailed[w]) =>
            /\ pc[w] = "raised" /\ err[w] = JobFailedError(w)
            /\ yielded[w] = <<>>
            /\ reqs[w]["results"] = 0

\* C5 witness: the job had produced rows and was polled more than once before
\* FAILED was observed.
C5_Witness ==
    \E w \in Workers :
        /\ Batch(w) /\ sawFailed[w] /\ pc[w] = "raised"
        /\ reqs[w]["status"] >= 2 /\ svcRows[w] >= 1

\* C6 (as claimed): the error raised for a FAILED job is of another kind than
\* the error raised for a non-2xx response, and carries the job's identifier.
C6_JobFailedDistinct ==
    \A w \in Workers :
        (op[w] = "search" /\ pc[w] = "raised" /\ sawFailed[w] /\ ~failedReq[w]) =>
            /\ err[w].type # HttpError.type
            /\ \E i \in DOMAIN err[w].msg : err[w].msg[i] = sid[w]

\* C7: only DONE and FAILED stop polling. A batch poll that observed any
\* other state is followed by another status poll; the streamer polls again
\* after draining the batch; the results request follows only DONE; a stream
\* ends normally only on DONE or at the row cap; a search raises only for a
\* failed request or FAILED.
C7_OnlyTerminalStops ==
    [][\A w \in Workers : op[w] = "search" =>
        /\ (pc[w] = "b_poll" /\ pc'[w] # "b_poll") =>
              (failedReq'[w] \/ state'[w] \in Terminal)
        /\ (pc[w] = "s_yield" /\ new_results[w] = <<>> /\ pc'[w] # pc[w]
              /\ state[w] \notin Terminal) => pc'[w] = "s_poll"
        /\ (pc'[w] = "b_results" /\ pc[w] # "b_results") => state'[w] = "DONE"
        /\ (stream[w] /\ pc'[w] = "done" /\ pc[w] # "done") =>
              (state'[w] = "DONE" \/ seen_count'[w] >= max_results)
        /\ (pc'[w] = "raised" /\ pc[w] \notin {"raised", "getclient"}) =>
              (failedReq'[w] \/ state'[w] = "FAILED")]_vars

\* C7 witness: a batch search still polling after several polls, the last of
\* which observed a state the client does not know.
C7_Witness ==
    \E w \in Workers :
        /\ Batch(w) /\ pc[w] = "b_poll" /\ state[w] = "NEWSTATE"
        /\ reqs[w]["status"] = MaxCount

\* C8: a failed request is never sent again: once a request of an operation
\* has failed the operation sends no request, and the failure is what the
\* operation raises.
C8_NoRetry ==
    [][\A w \in Workers :
        /\ failedReq[w] =>
              (reqs'[w] = reqs[w] /\ pc[w] = "raised" /\ pc'[w] = "raised" /\ err'[w] = err[w])
        /\ (failedReq'[w] /\ ~failedReq[w]) =>
              /\ pc'[w] = "raised"
              /\ err'[w] \in {HttpError, ConnError, UrlopenError("http")}]_vars

\* C8 witness: the results request failed after the job was polled to DONE.
C8_Witness ==
    \E w \in Workers :
        /\ failedReq[w] /\ pc[w] = "raised" /\ err[w] = HttpError
        /\ reqs[w]["results"] = 1 /\ reqs[w]["status"] >= 2

\* ---------------------------------------------------------- cmd_search claims
RECURSIVE SumYielded(_)
\* Rows returned by the searches of profiles 1..n together.
SumYielded(n) == IF n = 0 THEN 0 ELSE Len(yielded[n]) + SumYielded(n - 1)

RECURSIVE BlockStart(_)
\* Number of merged rows before the block of the j-th merged future.
BlockStart(j) == IF j = 1 THEN 0 ELSE BlockStart(j - 1) + Len(yielded[mergedSeq[j - 1]])

\* A value as the output shows it under --width.
Shown(v) == IF args.width = 0 THEN v ELSE TruncValue(v, args.width)

\* C9 (as claimed): when several profiles were queried and none failed, the
\* output holds one row for every row every search returned (as many as the
\* searches returned together), and each output row has a _profile field that
\* names the profile whose search returned it; with one profile no _profile
\* field is added.
C9_MergeCompleteTagged ==
    /\ (Multi /\ mainpc = "exit0") =>
          /\ Len(out) = SumYielded(NProfiles)
          /\ \A j \in 1..Len(mergedSeq) :
                LET w == mergedSeq[j]
                IN  \A i \in 1..Len(yielded[w]) :
                        LET r == out[BlockStart(j) + i]
                        IN  /\ r["_raw"] = Shown(yielded[w][i]["_raw"])
                            /\ "_profile" \in DOMAIN r
                            /\ r["_profile"] = Shown(profiles[w])
    /\ (NProfiles = 1 /\ mainpc = "exit0") =>
          /\ Len(out) = Len(yielded[1])
          /\ \A i \in 1..Len(out) :
                ("_profile" \in DOMAIN out[i]) <=> ("_profile" \in DOMAIN yielded[1][i])

\* C10 (as claimed): a multi-profile run fails as a whole only if the search
\* of every profile failed.
C10_FailsOnlyIfAllFail ==
    (Multi /\ mainpc = "failed") => \A w \in 1..NProfiles : pc[w] = "raised"

\* C10 (amended): a multi-profile run fails as a whole whenever the search of
\* at least one profile failed, with that profile's exception and with nothing
\* handed to the output function; the rows reach the output function only
\* when the search of every profile succeeded, and then all of them.
C10_FailsIfAnyFails ==
    Multi =>
        /\ mainpc \in {"join", "failed"} =>
              /\ \E w \in 1..NProfiles : pc[w] = "raised" /\ runErr = err[w]
              /\ out = <<>>
        /\ mainpc \in {"format", "exit0"} =>
              \A w \in 1..NProfiles : pc[w] = "done"
        /\ mainpc = "exit0" => Len(out) = SumYielded(NProfiles)
        /\ (\E w \in 1..NProfiles : pc[w] = "raised") => mainpc \notin {"format", "exit0"}

\* C10 witness: one profile's rows were already merged when another profile's
\* failure ended the run; nothing reached the output function.
C10_Witness ==
    /\ Multi /\ mainpc = "failed" /\ all_results # <<>> /\ out = <<>>
    /\ \E v, w \in 1..NProfiles :
        /\ pc[v] = "done" /\ Len(yielded[v]) >= 1
        /\ pc[w] = "raised" /\ runErr = err[w]

\* C11: if the search of any profile of a multi-profile run failed, the run
\* does not end with a success outcome: it never reaches the output function
\* or exit status 0, and when it has ended it has ended as failed, carrying
\* the exception of a failed profile.
C11_NoVanishedFailure ==
    (Multi /\ \E w \in 1..NProfiles : pc[w] = "raised") =>
        /\ mainpc # "exit0"
        /\ mainpc # "format"
        /\ (\A w \in 1..NProfiles : w \in {mergedSeq[i] : i \in 1..Len(mergedSeq)})
              => (mainpc \in {"join", "failed"} /\ runErr # NoErr)

\* C11 witness: every profile's future was taken by the merge loop, one
\* profile succeeded with rows, another failed, and the run ended as failed.
C11_Witness ==
    /\ Multi /\ mainpc = "failed" /\ Len(mergedSeq) = NProfiles
    /\ \E v, w \in 1..NProfiles :
        /\ pc[v] = "done" /\ yielded[v] # <<>>
        /\ pc[w] = "raised" /\ runErr = err[w]

\* The merged rows are the blocks of the futures taken so far, one block per
\* future in the order taken, each block the rows of that profile's search
\* in the order the search returned them.
MergedInBlocks ==
    /\ Len(all_results) = BlockStart(Len(mergedSeq) + 1)
    /\ \A j \in 1..Len(mergedSeq) :
          LET w == mergedSeq[j]
          IN  \A i \in 1..Len(yielded[w]) :
                  all_results[BlockStart(j) + i]["_raw"] = Shown(yielded[w][i]["_raw"])

\* The futures taken and about to be taken by the merge loop, in that order.
TakeOrder == mergedSeq \o finishedQ

SameElements(s, t) ==
    /\ Len(s) = Len(t)
    /\ {s[i] : i \in 1..Len(s)} = {t[i] : i \in 1..Len(t)}

\* Position of x in the sequence s, which holds it.
PosIn(s, x) == CHOOSE i \in 1..Len(s) : s[i] = x

RequestSent(w) == reqs'[w] # reqs[w] \/ lastAuth'[w] # lastAuth[w]

\* C13: every request the client sends carries Bearer <token> when a token is
\* set, also when a session key is set too; otherwise Splunk <session key>
\* when a session key is set; otherwise no Authorization header. In every
\* state the header of the last request agrees with the token and session key
\* the client holds, except right after the login request, which was sent
\* without a header and set the session key.
C13_AuthorizationHeader ==
    /\ [][\A w \in Workers :
            RequestSent(w) =>
                /\ token[w] # "" => lastAuth'[w] = <<"Bearer", token[w]>>
                /\ (token[w] = "" /\ session_key[w] # "")
                      => lastAuth'[w] = <<"Splunk", session_key[w]>>
                /\ (token[w] = "" /\ session_key[w] = "")
                      => lastAuth'[w] = NoAuthorization]_vars
    /\ [](\A w \in Workers :
            (lastAuth[w] # NoRequest /\ lastAuth[w] # NoAuthorization) =>
                /\ token[w] # "" => lastAuth[w] = <<"Bearer", token[w]>>
                /\ token[w] = "" => lastAuth[w] = <<"Splunk", session_key[w]>>)

\* C13 witness: a client holding a token and a session key has sent a delete
\* request and it carried the token.
C13_Witness ==
    \E w \in Workers :
        /\ token[w] # "" /\ session_key[w] # ""
        /\ reqs[w]["delete"] >= 1
        /\ lastAuth[w] = <<"Bearer", token[w]>>

\* C14: building a client for a profile without a host, or without a token
\* and without a username or a password, ends with a configuration error
\* (the exit of get_client or the ValueError of login, not a transport
\* error) and no request has been sent.
C14_ConfigErrorBeforeNetwork ==
    \A w \in Workers :
        (creds[w] \in {"nohost", "nopass"} /\ pc[w] \notin {"off", "getclient"}) =>
            /\ pc[w] = "raised"
            /\ err[w] \in {SystemExit, ValueError}
            /\ err[w].type \notin {HttpError.type, ConnError.type}
            /\ reqs[w] = NoReqs
            /\ lastAuth[w] = NoRequest
            /\ session_key[w] = ""

\* C14 witness: get_client has ended for a profile with a username and no
\* password.
C14_Witness ==
    \E w \in Workers :
        creds[w] = "nopass" /\ pc[w] = "raised" /\ err[w] = ValueError

\* C15: get_client with a token sends no request and leaves the session key
\* unset; otherwise it sends exactly one POST to auth/login, which on success
\* sets the session key; once get_client has ended no operation changes the
\* token or the session key or sends a login request, so at most one login
\* request is ever sent.
C15_CredentialLifetime ==
    /\ [](\A w \in Workers : reqs[w]["login"] <= 1)
    /\ [][\A w \in Workers :
            /\ (pc[w] = "getclient" /\ pc'[w] # "getclient" /\ creds[w] = "token") =>
                  /\ reqs'[w] = reqs[w]
                  /\ token'[w] # "" /\ session_key'[w] = ""
            /\ (pc[w] = "getclient" /\ pc'[w] = "idle" /\ creds[w] # "token") =>
                  /\ reqs'[w] = [NoReqs EXCEPT !["login"] = 1]
                  /\ token'[w] = "" /\ session_key'[w] # ""
            /\ pc[w] \notin {"off", "getclient"} =>
                  /\ token'[w] = token[w]
                  /\ session_key'[w] = session_key[w]
                  /\ reqs'[w]["login"] = reqs[w]["login"]]_vars

\* C15 witness: a client that logged in with username and password has
\* finished a streamed search of several polls with the same session key.
C15_Witness ==
    \E w \in Workers :
        /\ reqs[w]["login"] = 1 /\ session_key[w] = "key" /\ token[w] = ""
        /\ Streaming(w) /\ pc[w] = "done" /\ reqs[w]["status"] >= 2
        /\ lastAuth[w] = <<"Splunk", "key">>

\* C16 (as claimed): an operation one of whose requests was answered with a
\* non-2xx status has ended by raising, delete_job included, and the error is
\* of the one transport error kind, the RuntimeError of _request with the
\* status and the body, whatever the operation.
C16_UniformTransportError ==
    \A w \in Workers :
        (failedReq[w] /\ err[w] # ConnError) =>
            /\ pc[w] = "raised"
            /\ err[w].type = HttpError.type
            /\ err[w] = HttpError

\* Number of places of s where sub stands.
Occurrences(s, sub) ==
    Cardinality({i \in 1..(Len(s) - Len(sub) + 1) : SubSeq(s, i, i + Len(sub) - 1) = sub})

\* norm(q): q when q without its surrounding whitespace starts with a pipe,
\* else q after the word search and a blank.
Norm(q) == IF startswith(strip(q), Pipe) THEN q ELSE SearchPrefix \o q

\* C17: the text submitted is norm(q) followed by " | head n" exactly when
\* the lower-cased norm(q) does not contain "| head", and norm(q) unchanged
\* otherwise; so every submitted text contains "| head" in some
\* letter-casing, and a text that already contains it has as many of them
\* after as before.
C17_QueryNormalization ==
    \A w \in Workers :
        reqs[w]["submit"] >= 1 =>
            LET nq == Norm(query)
                had == Occurrences(lower(nq), PipeHead)
            IN  /\ had = 0 => submitted[w] = nq \o HeadSuffix \o str(max_results)
                /\ had > 0 => submitted[w] = nq
                /\ Occurrences(lower(submitted[w]), PipeHead) = (IF had = 0 THEN 1 ELSE had)

\* C17 witness: a query that starts with blanks and a pipe and has its head
\* stage in capitals was submitted as typed.
C17_Witness ==
    \E w \in Workers :
        /\ reqs[w]["submit"] >= 1
        /\ query = <<" ", "|", " ", "H", "E", "A", "D">>
        /\ submitted[w] = query

\* C18: a batch search requests the results endpoint at most once, and once
\* when it ends normally; the request is sent only after a status poll of the
\* job observed DONE, and no status poll follows it; the rows yielded are
\* those of that one response, the first max_results rows of the finished
\* job (none when the response has no rows); a batch search never requests
\* the preview endpoint.
C18_BatchFetchOrdering ==
    /\ [](\A w \in Workers :
            Batch(w) =>
                /\ reqs[w]["results"] <= 1
                /\ reqs[w]["preview"] = 0
                /\ pc[w] = "b_results" => (state[w] = "DONE" /\ reqs[w]["results"] = 0)
                /\ reqs[w]["results"] >= 1 =>
                      /\ state[w] = "DONE" /\ reqs[w]["status"] >= 1
                      /\ pc[w] \in {"b_yield", "done", "raised"}
                /\ pc[w] = "b_yield" =>
                      yielded[w] \o new_results[w] = Snapshot(w, 0, max_results)
                /\ pc[w] = "done" =>
                      /\ reqs[w]["results"] = 1
                      /\ yielded[w] = Snapshot(w, 0, max_results)
                /\ pc[w] \notin {"b_yield", "done"} => yielded[w] = <<>>)
    /\ [][\A w \in Workers :
            (Batch(w) /\ reqs[w]["results"] >= 1) =>
                /\ reqs'[w] = reqs[w]
                /\ lastAuth'[w] = lastAuth[w]
                /\ state'[w] = state[w]]_vars

\* C18 witness: a batch search that polled more than once has ended with the
\* rows of its one results response.
C18_Witness ==
    \E w \in Workers :
        /\ Batch(w) /\ pc[w] = "done"
        /\ reqs[w]["status"] >= 2 /\ reqs[w]["results"] = 1
        /\ Len(yielded[w]) >= 2

\* A search of worker w that has submitted its job has ended.
SearchEnded(w) ==
    op[w] = "search" /\ reqs[w]["submit"] >= 1 /\ pc[w] \in {"done", "raised"}

\* C19 (as claimed, second half): a batch search ends only after the job
\* reported DONE or FAILED, and a stream call that ends without such a
\* report ends because the row cap is reached.
C19_EndsOnlyOnTerminalOrCap ==
    \A w \in Workers :
        SearchEnded(w) =>
            /\ Batch(w) => state[w] \in Terminal
            /\ (Streaming(w) /\ state[w] \notin Terminal) =>
                  (pc[w] = "done" /\ seen_count[w] >= max_results)

\* C19 (amended): if no request fails and the job from some time on reports
\* DONE, or from some time on reports FAILED, then with threads that keep
\* running a batch search and a stream call eventually end; and as long as no
\* request has failed, a batch search has ended only after a poll observed
\* DONE (normally) or FAILED (raising), and a stream call has ended without
\* such an observation only by reaching the row cap.
C19_Termination ==
    /\ \A w \in Workers :
          ([](~failedReq[w]) /\ op[w] = "search"
              /\ (<>[](svcState[w] = "DONE") \/ <>[](svcState[w] = "FAILED")))
            => <>(pc[w] \in {"done", "raised"})
    /\ [](\A w \in Workers :
            (SearchEnded(w) /\ ~failedReq[w]) =>
                /\ Batch(w) => /\ state[w] \in Terminal
                               /\ pc[w] = "done" <=> state[w] = "DONE"
                /\ (Streaming(w) /\ state[w] \notin Terminal) =>
                      (pc[w] = "done" /\ seen_count[w] >= max_results))

\* C19 witness: a batch search none of whose requests failed polled a job
\* more than once, saw it FAILED, and ended with the job-failed error.
C19_Witness ==
    \E w \in Workers :
        /\ Batch(w) /\ pc[w] = "raised" /\ ~failedReq[w]
        /\ err[w] = JobFailedError(w) /\ svcState[w] = "FAILED"
        /\ reqs[w]["status"] >= 2

\* ------------------------------------------------------------ mode selection
\* C20: the preview endpoint is requested only when exactly one profile is
\* queried, the format is table and no output file is given; in a
\* multi-profile run every profile's search is a batch search whatever the
\* format, and no preview request is sent.
C20_ModeSelection ==
    \A w \in Workers :
        /\ (reqs[w]["preview"] >= 1 \/ pc[w] \in {"s_poll", "s_preview", "s_yield"} \/ stream[w])
              => (NProfiles = 1 /\ args.format = "table" /\ ~args.output)
        /\ Multi => (~stream[w] /\ reqs[w]["preview"] = 0)
        /\ (Multi /\ w <= NProfiles /\ pc[w] = "done") => reqs[w]["results"] = 1
        /\ (op[w] = "search" /\ ~stream[w]) => reqs[w]["preview"] = 0

\* C20 witness: a run of two profiles with format table and no output file
\* has ended, both searches having fetched their rows with the results
\* request.
C20_Witness ==
    /\ Multi /\ mainpc = "exit0" /\ args.format = "table" /\ ~args.output
    /\ \A w \in 1..NProfiles :
          reqs[w]["results"] = 1 /\ reqs[w]["preview"] = 0
    /\ out # <<>>

\* -------------------------------------------------------------- fan-out
\* C21: a run over N profiles runs N workers and no more; each worker builds
\* its own client and submits at most one search job, one when its search
\* ends normally; two workers never hold the same job identifier; every
\* status and results request of a worker names the job identifier its own
\* submission returned; no worker of a multi-profile run sends a preview,
\* list or delete request.
C21_BoundedFanOut ==
    /\ \A w \in Workers :
          /\ w > NProfiles => (pc[w] = "off" /\ reqs[w] = NoReqs /\ sid[w] = NoSid)
          /\ reqs[w]["submit"] <= 1
          /\ (op[w] = "search" /\ pc[w] = "done") => reqs[w]["submit"] = 1
          /\ sid[w] # NoSid => (sid[w] = SidOf(w) /\ reqs[w]["submit"] = 1)
          /\ (reqs[w]["status"] >= 1 \/ reqs[w]["results"] >= 1) =>
                (lastTarget[w] = sid[w] /\ sid[w] # NoSid)
          /\ Multi => (reqs[w]["preview"] = 0 /\ reqs[w]["list"] = 0 /\ reqs[w]["delete"] = 0)
          /\ (Multi /\ w <= NProfiles /\ mainpc # "start") => pc[w] # "off"
    /\ \A v, w \in Workers :
          (v # w /\ sid[v] # NoSid) => (sid[v] # sid[w] /\ lastTarget[w] # sid[v])

\* C21 witness: both workers of a two-profile run have polled and fetched
\* the results of their own jobs.
C21_Witness ==
    /\ Multi /\ NProfiles = MaxProfiles
    /\ \A w \in 1..NProfiles :
          /\ pc[w] = "done" /\ reqs[w]["submit"] = 1 /\ reqs[w]["results"] = 1
          /\ lastTarget[w] = SidOf(w)

\* ------------------------------------------------------------- cmd_clear
\* The sids of a listing.
Listed(l) == {l[i] : i \in 1..Len(l)}

\* C22: cmd_clear sends at most one DELETE for a job, and none for a job
\* that is not in the listing or whose identifier starts with scheduler_;
\* the loop goes on after a failed delete, so that when the count is
\* reported every listed job without the prefix has had its one DELETE; the
\* count reported is the number of deletes that succeeded.
C22_ClearDeletesOwnJobs ==
    /\ \A j \in JobIds :
          /\ delSent[j] <= 1
          /\ startswith(j, SchedulerPrefix) => delSent[j] = 0
          /\ j \notin Listed(jobs) => delSent[j] = 0
          /\ j \in delOk => delSent[j] = 1
    /\ deleted = Cardinality(delOk)
    /\ clearpc = "exit0" =>
          /\ \A j \in Listed(jobs) :
                ~startswith(j, SchedulerPrefix) => delSent[j] = 1
          /\ reported = Cardinality(delOk)
    /\ clearpc # "exit0" => reported = -1
    /\ clearpc = "nojobs" =>
          \A j \in Listed(jobs) : startswith(j, SchedulerPrefix)

\* C22 witness: of three listed jobs one is a scheduler job; the first
\* delete failed, the second succeeded, and the command reported one.
C22_Witness ==
    /\ clearpc = "exit0" /\ Len(jobs) = 3 /\ Len(my_jobs) = 2
    /\ \E j \in Listed(jobs) : startswith(j, SchedulerPrefix)
    /\ my_jobs[1] \notin delOk /\ my_jobs[2] \in delOk
    /\ delSent[my_jobs[1]] = 1 /\ reported = 1

\* ------------------------------------------------------------- origin tag
\* C23 (as claimed): in a multi-profile run every merged row has a _profile
\* field and it names the profile whose search returned the row, whatever
\* fields the row came with.
C23_OriginTagIntegrity ==
    Multi =>
        \A j \in 1..Len(mergedSeq) :
            LET w == mergedSeq[j]
            IN  \A i \in 1..Len(yielded[w]) :
                    LET r == all_results[BlockStart(j) + i]
                    IN  /\ "_profile" \in DOMAIN r
                        /\ r["_profile"] = Shown(profiles[w])

\* ------------------------------------------------------------------- join
\* Every worker of the run has returned or raised.
EveryWorkerEnded == \A w \in 1..NProfiles : pc[w] \in {"done", "raised"}

\* C24: a multi-profile run reports its outcome, the rows or the failure,
\* only when all its workers have ended: while a worker is still running,
\* the run has neither handed rows to the output function nor ended, also
\* when the failure of another profile is already known to the merge loop.
C24_JoinBeforeOutcome ==
    /\ [](Multi =>
            /\ mainpc \in {"format", "exit0", "failed"} => EveryWorkerEnded
            /\ ~EveryWorkerEnded => out = <<>>)
    /\ [][(Multi /\ mainpc = "join" /\ ~EveryWorkerEnded) =>
            (mainpc' = "join" /\ out' = out /\ runErr' = runErr)]_vars

\* C24 witness: the merge loop has met the failure of one profile, and the
\* run waits for the other profile's search, which has polled several times
\* a job that is still running.
C24_Witness ==
    /\ Multi /\ mainpc = "join"
    /\ \E v, w \in 1..NProfiles :
          /\ pc[v] = "raised" /\ runErr = err[v]
          /\ pc[w] = "b_poll" /\ reqs[w]["status"] >= MaxCount
          /\ svcState[w] = "RUNNING"

\* ------------------------------------------------------------ job lifetime
\* C25: a search, batch or streamed, sends no DELETE request; the job its
\* submission created exists at the service from then on, also after the
\* search has ended normally, at the row cap or with an error; a job ceases
\* to exist only in a step of delete_job that sends a DELETE.
C25_SearchLeavesJob ==
    /\ [](\A w \in Workers :
            op[w] = "search" =>
                /\ reqs[w]["delete"] = 0
                /\ sid[w] # NoSid => svcState[w] # "NONE")
    /\ [][\A w \in Workers :
            (svcState[w] # "NONE" /\ svcState'[w] = "NONE") =>
                /\ op[w] = "delete_job"
                /\ reqs[w]["delete"] = 0 /\ reqs'[w]["delete"] = 1]_vars

\* C25 witness: a streamed search has ended at the row cap and its job is
\* still running at the service.
C25_Witness ==
    \E w \in Workers :
        /\ Streaming(w) /\ pc[w] = "done" /\ max_results >= 1
        /\ seen_count[w] >= max_results
        /\ sid[w] = SidOf(w) /\ svcState[w] = "RUNNING"

\* ------------------------------------------------------- result sequence
\* C26: a search whose sequence has not been consumed yet has sent no
\* request of its own and no job exists for it; a search submits at most one
\* job; once the sequence has ended, normally or by raising, asking it for
\* another row yields none and sends no request: nothing of the search
\* changes any more.
C26_LazySinglePass ==
    /\ [](\A w \in Workers :
            op[w] = "search" =>
                /\ reqs[w]["submit"] <= 1
                /\ pc[w] \in {"getclient", "idle"} =>
                      /\ \A e \in Endpoints \ {"login"} : reqs[w][e] = 0
                      /\ svcState[w] = "NONE" /\ sid[w] = NoSid
                      /\ yielded[w] = <<>> /\ submitted[w] = <<>>
                /\ reconsumed[w] => pc[w] \in {"done", "raised"})
    /\ [][\A w \in Workers :
            (op[w] = "search" /\ pc[w] \in {"done", "raised"}) =>
                /\ pc'[w] = pc[w] /\ err'[w] = err[w]
                /\ reqs'[w] = reqs[w] /\ lastAuth'[w] = lastAuth[w]
                /\ yielded'[w] = yielded[w] /\ new_results'[w] = new_results[w]
                /\ sid'[w] = sid[w]]_vars

\* C26 witness: the consumer asked for another row after a search that had
\* yielded rows ended; the search had submitted one job.
C26_Witness ==
    \E w \in Workers :
        /\ op[w] = "search" /\ reconsumed[w] /\ pc[w] = "done"
        /\ Len(yielded[w]) >= 1 /\ reqs[w]["submit"] = 1

====
